---------------------------- MODULE Spec2Model ----------------------------
(***************************************************************************)
(* A model of salt/modules/mod_random.py (the "random" execution module):  *)
(* hash, str_encode, get_str, shadow_hash, rand_int and seed.              *)
(*                                                                         *)
(* Python strings are sequences of one-character strings, bytes are        *)
(* sequences of integers, an optional argument is None (<<>>) or Some(x)   *)
(* (<<x>>).  A call returns an Outcome: a value or a raised exception.     *)
(* The process state the module's code can reach is passed explicitly as   *)
(* a "world" w: w.rng is the state of the module-level generator of the    *)
(* `random` library, w.entropy the next outputs of the operating system's  *)
(* secure random source.  Every operation returns                          *)
(*    [ret  |-> its Outcome,                                               *)
(*     rng  |-> the state it leaves the `random` generator in,             *)
(*     pool |-> the character pool it built (<<>> when it builds none)].   *)
(***************************************************************************)
EXTENDS Integers, Sequences, FiniteSets

(***************************************************************************)
(* Bounds of the model.                                                    *)
(***************************************************************************)
\* the longest string get_str is asked for
MaxLen == 2
\* the length of a generated crypt salt (scaled down from the scheme's)
SaltLen == 1
\* the length of a generated password (scaled down from the default, 20)
SecretLen == 1
\* the number of states of the seedable generator
RngMod == 4
\* the longest string get_str is asked for by concurrent callers
ConcLen == 1

(***************************************************************************)
(* Python values.                                                          *)
(***************************************************************************)
None == <<>>
Some(x) == <<x>>
IsNone(o) == o = <<>>
Get(o) == o[1]

Ok(v) == [kind |-> "ok", val |-> <<v>>, exc |-> "", msg |-> ""]
Raise(e, m) == [kind |-> "error", val |-> <<>>, exc |-> e, msg |-> m]
IsOk(r) == r.kind = "ok"
Val(r) == r.val[1]

Range(s) == {s[i] : i \in 1..Len(s)}

RECURSIVE Sum(_)
Sum(s) == IF s = <<>> THEN 0 ELSE Head(s) + Sum(Tail(s))

\* ASCII, codes 32 to 126 (the double quote, the backslash and the backtick are spelled out).
AsciiTable ==
  <<" ", "!", "DQUOTE", "#", "$", "%", "&", "'", "(", ")", "*", "+", ",", "-", ".", "/",
    "0", "1", "2", "3", "4", "5", "6", "7", "8", "9", ":", ";", "<", "=", ">", "?",
    "@", "A", "B", "C", "D", "E", "F", "G", "H", "I", "J", "K", "L", "M", "N", "O",
    "P", "Q", "R", "S", "T", "U", "V", "W", "X", "Y", "Z", "[", "BACKSLASH", "]", "^", "_",
    "BACKTICK", "a", "b", "c", "d", "e", "f", "g", "h", "i", "j", "k", "l", "m", "n", "o",
    "p", "q", "r", "s", "t", "u", "v", "w", "x", "y", "z", "{", "|", "}", "~">>
Chr(n) == AsciiTable[n - 31]
OrdTable == [c \in {AsciiTable[n - 31] : n \in 32..126} |->
               CHOOSE n \in 32..126 : AsciiTable[n - 31] = c]
Ord(c) == OrdTable[c]

\* str.encode(__salt_system_encoding__) and bytes.decode(...), on ASCII text
str_to_bytes(s) == [i \in 1..Len(s) |-> Ord(s[i])]
bytes_to_str(b) == [i \in 1..Len(b) |-> Chr(b[i])]

\* a value handed to hash or str_encode: a str, a bytes or another object
StrValue(s) == [type |-> "str", v |-> s]
BytesValue(b) == [type |-> "bytes", v |-> b]
IntValue(n) == [type |-> "int", v |-> <<n>>]

(***************************************************************************)
(* The standard library, as far as the module uses it.                     *)
(***************************************************************************)
\* hashlib.algorithms_guaranteed (three of its names; shake_128 is one)
algorithms_guaranteed == {"md5", "sha512", "shake_128"}
\* the names n with hasattr(hashlib, n): the constructors and the rest
hashlib_attributes == algorithms_guaranteed \cup {"new", "pbkdf2_hmac"}
\* the names hashlib.new accepts
hashlib_supported == {"md5", "sha512", "shake_128"}
\* the extendable-output functions, whose hexdigest needs a length
hashlib_xof == {"shake_128"}

HexDigits ==
  <<"0", "1", "2", "3", "4", "5", "6", "7", "8", "9", "a", "b", "c", "d", "e", "f">>
Hex2(n) == <<HexDigits[(n \div 16) + 1], HexDigits[(n % 16) + 1]>>
\* a digest of one byte: a function of the algorithm and of every byte
digest_byte(algorithm, data) ==
  (Sum([i \in 1..Len(data) |-> i * data[i]])
     + (IF algorithm = "md5" THEN 5 ELSE 11) * (Len(data) + 1)) % 256

\* hasher = hashlib.new(algorithm); hasher.update(value); hasher.hexdigest()
hashlib_hexdigest(algorithm, value) ==
  IF algorithm \notin hashlib_supported
  THEN Raise("ValueError", "unsupported hash type")
  ELSE IF value.type # "bytes"
  THEN Raise("TypeError", "object supporting the buffer API required")
  ELSE IF algorithm \in hashlib_xof
  THEN Raise("TypeError", "hexdigest() missing required argument 'length'")
  ELSE Ok(Hex2(digest_byte(algorithm, value.v)))

\* the base64 alphabet
B64Chr(i) ==
  IF i < 26 THEN Chr(65 + i)
  ELSE IF i < 52 THEN Chr(97 + (i - 26))
  ELSE IF i < 62 THEN Chr(48 + (i - 52))
  ELSE IF i = 62 THEN "+" ELSE "/"

\* base64.b64encode: bytes to bytes, three bytes to four characters, "=" padded
RECURSIVE b64encode(_)
b64encode(b) ==
  IF Len(b) = 0 THEN <<>>
  ELSE LET n == b[1] * 65536
                  + (IF Len(b) >= 2 THEN b[2] * 256 ELSE 0)
                  + (IF Len(b) >= 3 THEN b[3] ELSE 0)
           c1 == Ord(B64Chr(n \div 262144))
           c2 == Ord(B64Chr((n \div 4096) % 64))
           c3 == IF Len(b) >= 2 THEN Ord(B64Chr((n \div 64) % 64)) ELSE Ord("=")
           c4 == IF Len(b) >= 3 THEN Ord(B64Chr(n % 64)) ELSE Ord("=")
       IN  <<c1, c2, c3, c4>> \o (IF Len(b) > 3 THEN b64encode(SubSeq(b, 4, Len(b))) ELSE <<>>)

\* the text encodings str.encode knows
codecs_known == {"utf-8", "ascii"}

\* The module-level generator of `random`: RngMod states, stepped by each draw.
RngStates == 0 .. (RngMod - 1)
random_seed(g, s) == s % RngMod
random_next(g) == (g + 1) % RngMod
\* random.randrange(n): [outcome, generator state]
random_randrange(g, n) ==
  IF n <= 0
  THEN [ret |-> Raise("ValueError", "empty range for randrange()"), rng |-> g]
  ELSE [ret |-> Ok(random_next(g) % n), rng |-> random_next(g)]
\* random.randint(a, b)
random_randint(g, a, b) ==
  IF a > b
  THEN [ret |-> Raise("ValueError", "empty range for randrange()"), rng |-> g]
  ELSE [ret |-> Ok(a + (random_next(g) % (b - a + 1))), rng |-> random_next(g)]

\* string.ascii_lowercase, ascii_uppercase, digits, punctuation, whitespace:
\* one character of each class stands for the class
ascii_lowercase == <<"a">>
ascii_uppercase == <<"A">>
string_digits == <<"0">>
string_punctuation == <<"!">>
string_whitespace == <<" ">>
string_printable ==
  ascii_lowercase \o ascii_uppercase \o string_digits \o string_punctuation
    \o string_whitespace

\* the process state a call runs in
World(g, e) == [rng |-> g, entropy |-> e]
\* what the secure source can return for one draw
RawDraws == 0 .. (Len(string_printable) - 1)

(***************************************************************************)
(* salt.utils.pycrypto: secure_password and gen_hash, the functions        *)
(* get_str and shadow_hash delegate to.                                    *)
(***************************************************************************)
\* SecureRandomSource.draw_uniform: the i-th draw of the call, in [0, pool_size)
draw_uniform(w, i, pool_size) == w.entropy[i] % pool_size

\* the character pool of a configuration: chars, else printable, else the flags
CharacterPool(chars, lowercase, uppercase, digits, punctuation, whitespace, printable) ==
  IF ~IsNone(chars) /\ Get(chars) # <<>> THEN Get(chars)
  ELSE IF printable THEN string_printable
  ELSE (IF lowercase THEN ascii_lowercase ELSE <<>>)
         \o (IF uppercase THEN ascii_uppercase ELSE <<>>)
         \o (IF digits THEN string_digits ELSE <<>>)
         \o (IF punctuation THEN string_punctuation ELSE <<>>)
         \o (IF whitespace THEN string_whitespace ELSE <<>>)

secure_password(w, length, chars, lowercase, uppercase, digits, punctuation, whitespace, printable) ==
  LET p == CharacterPool(chars, lowercase, uppercase, digits, punctuation,
                         whitespace, printable)
  IN  IF p = <<>>
      THEN [ret |-> Raise("ConfigurationError", "empty character pool"),
            rng |-> w.rng, pool |-> p]
      ELSE [ret |-> Ok([i \in 1..length |-> p[draw_uniform(w, i, Len(p)) + 1]]),
            rng |-> w.rng, pool |-> p]

\* the schemes of the crypt primitive and their identifiers
crypt_methods == {"sha512", "md5"}
crypt_id(algorithm) == IF algorithm = "sha512" THEN "6" ELSE "1"
\* the pool a salt is generated from: alphanumeric plus "./"
crypt_salt_chars == ascii_lowercase \o ascii_uppercase \o string_digits \o <<".", "/">>
\* CryptPrimitive.format_hash: $id$salt$hash, the hash one character here, a
\* function of the scheme, of every character of the salt and of the secret
crypt_format(algorithm, salt, secret) ==
  LET sb == str_to_bytes(salt)
      pb == str_to_bytes(secret)
      n == (Sum([i \in 1..Len(pb) |-> (2 * i + 1) * pb[i]])
              + Sum([i \in 1..Len(sb) |-> (2 * i + 5) * sb[i]])
              + Ord(crypt_id(algorithm))) % 64
  IN  <<"$", crypt_id(algorithm), "$">> \o salt \o <<"$", B64Chr(n)>>

\* the number of draws gen_hash takes from the secure source
gen_hash_draws(crypt_salt, password, algorithm) ==
  IF algorithm \notin crypt_methods THEN 0
  ELSE (IF IsNone(password) THEN SecretLen ELSE 0)
         + (IF IsNone(crypt_salt) THEN SaltLen ELSE 0)

gen_hash(w, crypt_salt, password, algorithm) ==
  IF algorithm \notin crypt_methods
  THEN [ret |-> Raise("InvalidAlgorithmError", "unsupported hash algorithm"),
        rng |-> w.rng, pool |-> <<>>]
  ELSE LET used == IF IsNone(password) THEN SecretLen ELSE 0
           secret == IF IsNone(password)
                     THEN Val(secure_password(w, SecretLen, None, TRUE, TRUE, TRUE,
                                              TRUE, FALSE, FALSE).ret)
                     ELSE Get(password)
           w2 == World(w.rng, SubSeq(w.entropy, used + 1, Len(w.entropy)))
           salt == IF IsNone(crypt_salt)
                   THEN Val(secure_password(w2, SaltLen, Some(crypt_salt_chars), TRUE,
                                            TRUE, TRUE, TRUE, FALSE, FALSE).ret)
                   ELSE Get(crypt_salt)
       IN  [ret |-> Ok(crypt_format(algorithm, salt, secret)),
            rng |-> w.rng, pool |-> <<>>]

(***************************************************************************)
(* salt/modules/mod_random.py                                              *)
(***************************************************************************)
\* __grains__["id"], the minion's id, as the seed it makes
grains_id == 2

hash(w, value, algorithm) ==
  LET value2 == IF value.type = "str" THEN BytesValue(str_to_bytes(value.v)) ELSE value
      out == IF algorithm \in algorithms_guaranteed
             THEN hashlib_hexdigest(algorithm, value2)
             ELSE IF algorithm \in hashlib_attributes
             THEN hashlib_hexdigest(algorithm, value2)
             ELSE Raise("SaltInvocationError", "You must specify a valid algorithm.")
  IN  [ret |-> out, rng |-> w.rng, pool |-> <<>>]

str_encode(w, value, encoder) ==
  LET value2 == IF value.type = "str" THEN BytesValue(str_to_bytes(value.v)) ELSE value
      out == IF encoder = "base64"
             THEN IF value2.type = "bytes"
                  THEN Ok(bytes_to_str(b64encode(value2.v)))
                  ELSE \* TypeError
                       Raise("SaltInvocationError", "Value must be an encode-able string")
             ELSE IF value2.type # "str"
                  THEN \* AttributeError: only a str has .encode
                       Raise("SaltInvocationError", "Value must be an encode-able string")
                  ELSE IF encoder \notin codecs_known
                  THEN \* LookupError
                       Raise("SaltInvocationError", "You must specify a valid encoder")
                  ELSE Ok(str_to_bytes(value2.v))
  IN  [ret |-> out, rng |-> w.rng, pool |-> <<>>]

\* get_str forwarding one character too few
get_str_shortByOne(w, length, chars, lowercase, uppercase, digits, punctuation, whitespace, printable) ==
  secure_password(w, IF length > 0 THEN length - 1 ELSE 0, chars, lowercase,
                  uppercase, digits, punctuation, whitespace, printable)
\* get_str not forwarding chars
get_str_dropsChars(w, length, chars, lowercase, uppercase, digits, punctuation, whitespace, printable) ==
  secure_password(w, length, None, lowercase, uppercase, digits, punctuation,
                  whitespace, printable)
\* get_str not forwarding lowercase, whose default is True
get_str_dropsLowercase(w, length, chars, lowercase, uppercase, digits, punctuation, whitespace, printable) ==
  secure_password(w, length, chars, TRUE, uppercase, digits, punctuation,
                  whitespace, printable)
\* get_str choosing its characters with the module-level generator of `random`
get_str_seeded(w, length, chars, lowercase, uppercase, digits, punctuation, whitespace, printable) ==
  LET p == CharacterPool(chars, lowercase, uppercase, digits, punctuation,
                         whitespace, printable)
  IN  IF p = <<>>
      THEN secure_password(w, length, chars, lowercase, uppercase, digits,
                           punctuation, whitespace, printable)
      ELSE [ret |-> Ok([i \in 1..length |-> p[((w.rng + i) % Len(p)) + 1]]),
            rng |-> (w.rng + length) % RngMod, pool |-> p]
get_str(w, length, chars, lowercase, uppercase, digits, punctuation, whitespace, printable) ==
  secure_password(w, length, chars, lowercase, uppercase, digits, punctuation,
                  whitespace, printable)

\* shadow_hash not forwarding crypt_salt
shadow_hash_dropsSalt(w, crypt_salt, password, algorithm) ==
  gen_hash(w, None, password, algorithm)
\* shadow_hash not forwarding algorithm, whose default is sha512
shadow_hash_defaultAlgorithm(w, crypt_salt, password, algorithm) ==
  gen_hash(w, crypt_salt, password, "sha512")
\* shadow_hash making an omitted salt with the module-level generator of `random`
shadow_hash_seededSalt(w, crypt_salt, password, algorithm) ==
  IF IsNone(crypt_salt)
  THEN gen_hash(w, Some([i \in 1..SaltLen |->
                           crypt_salt_chars[((w.rng + i) % Len(crypt_salt_chars)) + 1]]),
                password, algorithm)
  ELSE gen_hash(w, crypt_salt, password, algorithm)
shadow_hash(w, crypt_salt, password, algorithm) ==
  gen_hash(w, crypt_salt, password, algorithm)

\* if seed is not None: random.seed(seed)
rand_int_reseed(g, seed) == IF ~IsNone(seed) THEN random_seed(g, Get(seed)) ELSE g
\* rand_int never reseeding
rand_int_noReseed(w, start, end, seed) ==
  LET r == random_randint(w.rng, start, end)
  IN  [ret |-> r.ret, rng |-> r.rng, pool |-> <<>>]
rand_int(w, start, end, seed) ==
  LET r == random_randint(rand_int_reseed(w.rng, seed), start, end)
  IN  [ret |-> r.ret, rng |-> r.rng, pool |-> <<>>]

\* if hash is None: hash = __grains__["id"]; random.seed(hash)
seed_reseed(g, hash_) == random_seed(g, IF IsNone(hash_) THEN grains_id ELSE Get(hash_))
seed(w, range, hash_) ==
  LET r == random_randrange(seed_reseed(w.rng, hash_), range)
  IN  [ret |-> r.ret, rng |-> r.rng, pool |-> <<>>]

(***************************************************************************)
(* The state.  A caller makes one call at a time: pc is "idle" between     *)
(* calls and "done" when a call has returned; then op, args, ret and pool  *)
(* are the call, its outcome and the pool it built.  rng is the state of   *)
(* the module-level generator of `random`.                                 *)
(*                                                                         *)
(* rngB and retB are the generator and the outcome of a second run of the  *)
(* same calls, with the same draws of the secure source, which may pass    *)
(* other seeds to rand_int and seed.  prev is an earlier call the caller   *)
(* remembers.  thr is the state of the threads that call the module        *)
(* concurrently, sharing rng.                                              *)
(***************************************************************************)
VARIABLES pc, op, args, ret, pool, rng, rngB, retB, prev, thr

vars == <<pc, op, args, ret, pool, rng, rngB, retB, prev, thr>>

NoOutcome == [kind |-> "none", val |-> <<>>, exc |-> "", msg |-> ""]
Threads == {1, 2}
IdleThread == [pc |-> "idle", op |-> "", args |-> <<>>, ret |-> NoOutcome]

\* The arguments the callers pass.
Lengths == 0 .. MaxLen
CharsArgs == {None, Some(<<>>), Some(<<"x", "y", "x">>)}
SaltArgs == {None, Some(<<"a", "0">>)}
PasswordArgs == {None, Some(<<"p", "w">>)}
AlgorithmArgs == {"sha512", "md5", "not-a-real-algo"}
StartArgs == {1, 2}
EndArgs == {1, 3}
SeedArgs == {None, Some(0), Some(1)}
RangeArgs == {0, 3}
ValueArgs == {StrValue(<<"a", "b">>), BytesValue(<<97, 98, 33, 48>>), IntValue(5)}
DigestArgs == {"sha512", "md5", "shake_128", "new", "bogus"}
EncoderArgs == {"base64", "utf-8", "bogus"}

GetStrArgs(length, chars, lowercase, uppercase, digits, punctuation, whitespace, printable) ==
  [length |-> length, chars |-> chars, lowercase |-> lowercase,
   uppercase |-> uppercase, digits |-> digits, punctuation |-> punctuation,
   whitespace |-> whitespace, printable |-> printable]
\* get_str on a record of its arguments
GetStrOf(w, a) ==
  get_str(w, a.length, a.chars, a.lowercase, a.uppercase, a.digits, a.punctuation,
          a.whitespace, a.printable)
ShadowHashOf(w, a) == shadow_hash(w, a.crypt_salt, a.password, a.algorithm)

Init ==
  /\ pc = "idle" /\ op = "" /\ args = <<>>
  /\ ret = NoOutcome /\ retB = NoOutcome /\ pool = <<>>
  /\ rng \in RngStates /\ rngB = rng
  /\ prev = None
  /\ thr = [t \in Threads |-> IdleThread]

\* the call o(a) returns: rA in the run, rB in the second run
Finish(o, a, rA, rB) ==
  /\ pc' = "done" /\ op' = o /\ args' = a
  /\ ret' = rA.ret /\ pool' = rA.pool /\ rng' = rA.rng
  /\ retB' = rB.ret /\ rngB' = rB.rng
  /\ UNCHANGED <<prev, thr>>

GetStr ==
  /\ pc = "idle"
  /\ \E length \in Lengths, chars \in CharsArgs, lowercase \in BOOLEAN,
        uppercase \in BOOLEAN, digits \in BOOLEAN, punctuation \in BOOLEAN,
        whitespace \in BOOLEAN, printable \in BOOLEAN :
       \E e \in [1..length -> RawDraws] :
         LET a == GetStrArgs(length, chars, lowercase, uppercase, digits,
                             punctuation, whitespace, printable)
         IN  Finish("get_str", a, GetStrOf(World(rng, e), a), GetStrOf(World(rngB, e), a))

ShadowHash ==
  /\ pc = "idle"
  /\ \E crypt_salt \in SaltArgs, password \in PasswordArgs, algorithm \in AlgorithmArgs :
       \E e \in [1..(SecretLen + SaltLen) -> RawDraws] :
         LET a == [crypt_salt |-> crypt_salt, password |-> password,
                   algorithm |-> algorithm]
         IN  Finish("shadow_hash", a, ShadowHashOf(World(rng, e), a),
                    ShadowHashOf(World(rngB, e), a))

\* sameSeeds: the second run passes the seed the run passes
RandInt(sameSeeds) ==
  /\ pc = "idle"
  /\ \E start \in StartArgs, end \in EndArgs, s \in SeedArgs :
       \E sB \in (IF sameSeeds THEN {s} ELSE SeedArgs) :
         Finish("rand_int", [start |-> start, end |-> end, seed |-> s],
                rand_int(World(rng, <<>>), start, end, s),
                rand_int(World(rngB, <<>>), start, end, sB))

Seed(sameSeeds) ==
  /\ pc = "idle"
  /\ \E range \in RangeArgs, h \in SeedArgs :
       \E hB \in (IF sameSeeds THEN {h} ELSE SeedArgs) :
         Finish("seed", [range |-> range, hash |-> h],
                seed(World(rng, <<>>), range, h), seed(World(rngB, <<>>), range, hB))

Hash ==
  /\ pc = "idle"
  /\ \E value \in ValueArgs, algorithm \in DigestArgs :
       Finish("hash", [value |-> value, algorithm |-> algorithm],
              hash(World(rng, <<>>), value, algorithm),
              hash(World(rngB, <<>>), value, algorithm))

StrEncode ==
  /\ pc = "idle"
  /\ \E value \in ValueArgs, encoder \in EncoderArgs :
       Finish("str_encode", [value |-> value, encoder |-> encoder],
              str_encode(World(rng, <<>>), value, encoder),
              str_encode(World(rngB, <<>>), value, encoder))

\* the calls a caller remembers: a seeded rand_int, a shadow_hash given its
\* salt and its password
Rememberable ==
  \/ op = "rand_int" /\ ~IsNone(args.seed)
  \/ op = "shadow_hash" /\ ~IsNone(args.crypt_salt) /\ ~IsNone(args.password)

\* the caller takes the outcome, and remembers the call or not
Return(remember) ==
  /\ pc = "done"
  /\ remember => Rememberable
  /\ pc' = "idle" /\ op' = "" /\ args' = <<>>
  /\ ret' = NoOutcome /\ retB' = NoOutcome /\ pool' = <<>>
  /\ prev' = IF remember THEN Some([op |-> op, args |-> args, ret |-> ret]) ELSE prev
  /\ UNCHANGED <<rng, rngB, thr>>

\* One caller, one run.
Next ==
  \/ GetStr
  \/ ShadowHash
  \/ RandInt(TRUE)
  \/ Seed(TRUE)
  \/ Hash
  \/ StrEncode
  \/ Return(FALSE)

Spec == Init /\ [][Next]_vars

\* Two runs of the same calls that differ in the seeds they pass.
NextRuns ==
  \/ GetStr
  \/ ShadowHash
  \/ RandInt(FALSE)
  \/ Seed(FALSE)
  \/ Hash
  \/ StrEncode
  \/ Return(FALSE)

SpecRuns == Init /\ [][NextRuns]_vars

\* One caller that remembers an earlier call.
NextPair ==
  \/ GetStr
  \/ ShadowHash
  \/ RandInt(TRUE)
  \/ Seed(TRUE)
  \/ Hash
  \/ StrEncode
  \/ \E remember \in BOOLEAN : Return(remember)

SpecPair == Init /\ [][NextPair]_vars

(***************************************************************************)
(* Concurrent callers.  Each thread invokes an operation and runs it one   *)
(* statement at a time: get_str and shadow_hash are one statement (the     *)
(* call they delegate to), rand_int and seed are two (reseed, then draw).  *)
(* The threads share rng, the module-level generator, and nothing else.    *)
(***************************************************************************)
ConcGetStrArgs ==
  { GetStrArgs(length, c[1], c[2], c[2], c[2], c[2], FALSE, FALSE) :
      length \in 0..ConcLen,
      c \in {<<None, TRUE>>, <<None, FALSE>>} }
ConcShadowHashArgs ==
  { [crypt_salt |-> Some(<<"a", "0">>), password |-> Some(<<"p", "w">>), algorithm |-> "sha512"],
    [crypt_salt |-> None, password |-> Some(<<"p", "w">>), algorithm |-> "md5"],
    [crypt_salt |-> None, password |-> None, algorithm |-> "not-a-real-algo"] }
ConcCalls ==
  {[op |-> "get_str", args |-> a] : a \in ConcGetStrArgs}
    \cup {[op |-> "shadow_hash", args |-> a] : a \in ConcShadowHashArgs}
    \cup {[op |-> "rand_int", args |-> [start |-> 1, end |-> 3, seed |-> s]] :
            s \in SeedArgs}
    \cup {[op |-> "seed", args |-> [range |-> 3, hash |-> h]] : h \in {None, Some(1)}}

Invoke(t) ==
  /\ thr[t].pc = "idle"
  /\ \E c \in ConcCalls :
       thr' = [thr EXCEPT ![t] = [pc |-> "invoked", op |-> c.op, args |-> c.args,
                                  ret |-> NoOutcome]]
  /\ UNCHANGED <<pc, op, args, ret, pool, rng, rngB, retB, prev>>

\* the thread's call returns r
Complete(t, r) ==
  /\ thr' = [thr EXCEPT ![t].pc = "done", ![t].ret = r.ret]
  /\ rng' = r.rng
  /\ UNCHANGED <<pc, op, args, ret, pool, rngB, retB, prev>>

RunGetStr(t) ==
  /\ thr[t].pc = "invoked" /\ thr[t].op = "get_str"
  /\ \E e \in [1..thr[t].args.length -> RawDraws] :
       Complete(t, GetStrOf(World(rng, e), thr[t].args))

RunShadowHash(t) ==
  /\ thr[t].pc = "invoked" /\ thr[t].op = "shadow_hash"
  /\ \E e \in [1..gen_hash_draws(thr[t].args.crypt_salt, thr[t].args.password,
                                  thr[t].args.algorithm) -> RawDraws] :
       Complete(t, ShadowHashOf(World(rng, e), thr[t].args))

\* the first statement of rand_int and of seed
Reseed(t) ==
  /\ thr[t].pc = "invoked" /\ thr[t].op \in {"rand_int", "seed"}
  /\ rng' = IF thr[t].op = "rand_int" THEN rand_int_reseed(rng, thr[t].args.seed)
            ELSE seed_reseed(rng, thr[t].args.hash)
  /\ thr' = [thr EXCEPT ![t].pc = "reseeded"]
  /\ UNCHANGED <<pc, op, args, ret, pool, rngB, retB, prev>>

\* the last statement of rand_int and of seed
Draw(t) ==
  /\ thr[t].pc = "reseeded"
  /\ Complete(t, IF thr[t].op = "rand_int"
                 THEN random_randint(rng, thr[t].args.start, thr[t].args.end)
                 ELSE random_randrange(rng, thr[t].args.range))

TakeResult(t) ==
  /\ thr[t].pc = "done"
  /\ thr' = [thr EXCEPT ![t] = IdleThread]
  /\ UNCHANGED <<pc, op, args, ret, pool, rng, rngB, retB, prev>>

NextConc ==
  \E t \in Threads :
    \/ Invoke(t)
    \/ RunGetStr(t)
    \/ RunShadowHash(t)
    \/ Reseed(t)
    \/ Draw(t)
    \/ TakeResult(t)

SpecConc == Init /\ [][NextConc]_vars

(***************************************************************************)
(* The claims.                                                             *)
(***************************************************************************)
\* a call of get_str that has returned
GetStrDone == pc = "done" /\ op = "get_str"
\* a non-empty chars was supplied
GivenChars(a) == ~IsNone(a.chars) /\ Get(a.chars) # <<>>
\* the classes the flags of a configuration enable
EnabledClasses(a) ==
  (IF a.lowercase THEN {ascii_lowercase} ELSE {})
    \cup (IF a.uppercase THEN {ascii_uppercase} ELSE {})
    \cup (IF a.digits THEN {string_digits} ELSE {})
    \cup (IF a.punctuation THEN {string_punctuation} ELSE {})
    \cup (IF a.whitespace THEN {string_whitespace} ELSE {})
AllClasses ==
  {ascii_lowercase, ascii_uppercase, string_digits, string_punctuation, string_whitespace}
\* the characters of a set of classes, and how many they are
CharsOf(classes) == UNION {Range(c) : c \in classes}
RECURSIVE TotalLen(_)
TotalLen(classes) ==
  IF classes = {} THEN 0
  ELSE LET c == CHOOSE x \in classes : TRUE IN Len(c) + TotalLen(classes \ {c})

\* C1: whenever the configuration's pool is not empty, get_str returns a string
\* of exactly `length` characters, each one a member of the pool; with length 0
\* it returns the empty string.
C1_LengthAndMembership ==
  (GetStrDone /\ (GivenChars(args) \/ args.printable \/ EnabledClasses(args) # {}))
    => /\ IsOk(ret)
       /\ Len(Val(ret)) = args.length
       /\ \A i \in 1..Len(Val(ret)) : Val(ret)[i] \in Range(pool)
       /\ args.length = 0 => Val(ret) = <<>>
C1_Witness ==
  /\ GetStrDone /\ IsOk(ret) /\ args.length = 2 /\ IsNone(args.chars)
  /\ Len(Val(ret)) = 2 /\ Val(ret)[1] # Val(ret)[2]

\* C2: the pool get_str draws from is chars when a non-empty chars is given,
\* whatever the flags; else the union of the five classes when printable is
\* true, whatever the other flags; else exactly the enabled classes.
C2_PoolPrecedence ==
  GetStrDone
    => /\ GivenChars(args) => pool = Get(args.chars)
       /\ (~GivenChars(args) /\ args.printable) => Range(pool) = CharsOf(AllClasses)
       /\ (~GivenChars(args) /\ ~args.printable)
            => /\ Range(pool) = CharsOf(EnabledClasses(args))
               /\ Len(pool) = TotalLen(EnabledClasses(args))
C2_Witness ==
  /\ GetStrDone /\ args.chars = Some(<<"x", "y", "x">>)
  /\ args.printable /\ args.lowercase /\ ~args.uppercase
  /\ IsOk(ret) /\ Val(ret) = <<"y", "x">>

\* C3: with no chars and every flag false get_str fails with a configuration
\* error, for every length, 0 included, and returns no string.
C3_EmptyPoolFails ==
  (GetStrDone /\ ~GivenChars(args) /\ ~args.printable /\ EnabledClasses(args) = {})
    => ret = Raise("ConfigurationError", "empty character pool")
C3_Witness ==
  /\ GetStrDone /\ IsNone(args.chars) /\ ~args.printable /\ EnabledClasses(args) = {}
  /\ args.length = 0 /\ ret.kind = "error"

\* the call that has returned repeats the call the caller remembers
RepeatsPrev(o) ==
  /\ pc = "done" /\ op = o
  /\ ~IsNone(prev) /\ Get(prev).op = o /\ Get(prev).args = args

\* C4: two calls of shadow_hash with the same supported algorithm, the same
\* salt and the same password return the same hash, whatever is called in
\* between.
C4_ShadowHashDeterministic ==
  (RepeatsPrev("shadow_hash") /\ args.algorithm \in crypt_methods
     /\ ~IsNone(args.crypt_salt) /\ ~IsNone(args.password))
    => IsOk(ret) /\ Get(prev).ret = ret
C4_Witness ==
  /\ RepeatsPrev("shadow_hash") /\ args.algorithm = "sha512"
  /\ ~IsNone(args.crypt_salt) /\ ~IsNone(args.password) /\ IsOk(ret)

\* C5: shadow_hash with an algorithm that is no known scheme fails with the
\* invalid-algorithm error of gen_hash and returns no hash, whether the salt
\* and the password are given or not.
C5_UnknownAlgorithmFails ==
  (pc = "done" /\ op = "shadow_hash" /\ args.algorithm \notin crypt_methods)
    => ret = Raise("InvalidAlgorithmError", "unsupported hash algorithm")
C5_Witness ==
  /\ pc = "done" /\ op = "shadow_hash" /\ args.algorithm = "not-a-real-algo"
  /\ IsNone(args.crypt_salt) /\ IsNone(args.password) /\ ret.kind = "error"

\* C6: of two runs that make the same calls with the same draws of the secure
\* source and differ only in the seeds given to rand_int and seed, get_str and
\* shadow_hash return the same in both.
C6_SeedsDoNotInfluence ==
  (pc = "done" /\ op \in {"get_str", "shadow_hash"}) => retB = ret
C6_Witness ==
  /\ pc = "done" /\ op = "shadow_hash" /\ rngB # rng
  /\ IsNone(args.crypt_salt) /\ IsNone(args.password) /\ IsOk(ret)

\* C7: rand_int with a seed returns what an earlier call with the same seed,
\* start and end returned, whatever was called in between, and a number it
\* returns is between start and end.
C7_SeededRandIntRepeats ==
  (pc = "done" /\ op = "rand_int" /\ ~IsNone(args.seed))
    => /\ IsOk(ret) => (args.start <= Val(ret) /\ Val(ret) <= args.end)
       /\ RepeatsPrev("rand_int") => Get(prev).ret = ret
C7_Witness ==
  /\ RepeatsPrev("rand_int") /\ args.seed = Some(1) /\ args.start = 1 /\ args.end = 3
  /\ IsOk(ret)

\* the draws of the secure source the call o(a) takes
DrawsOf(o, a) ==
  IF o = "get_str" THEN [1..a.length -> RawDraws]
  ELSE [1..gen_hash_draws(a.crypt_salt, a.password, a.algorithm) -> RawDraws]
\* what the call o(a) returns when it runs alone, taking the draws e, the
\* generator in state g
AloneOutcome(o, a, g, e) ==
  IF o = "get_str" THEN GetStrOf(World(g, e), a).ret ELSE ShadowHashOf(World(g, e), a).ret

\* C8: under every interleaving of the threads, a call of get_str or of
\* shadow_hash returns what it returns alone for some draws of the secure
\* source, whatever state the other threads left the seeded generator in,
\* and leaves that generator as it is.
C8_NoSharedState ==
  [][\A t \in Threads :
       (thr[t].pc = "invoked" /\ thr[t].op \in {"get_str", "shadow_hash"}
          /\ thr'[t].pc = "done")
         => /\ rng' = rng
            /\ \E e \in DrawsOf(thr[t].op, thr[t].args) :
                 \A g \in RngStates :
                   thr'[t].ret = AloneOutcome(thr[t].op, thr[t].args, g, e)]_vars
C8_Witness ==
  /\ thr[1].pc = "done" /\ thr[1].op = "get_str" /\ IsOk(thr[1].ret)
  /\ Len(Val(thr[1].ret)) >= 1
  /\ thr[2].pc = "reseeded" /\ thr[2].op = "rand_int"

\* C9: hash returns the hex digest of the value for every algorithm name that
\* is a digest hashlib knows, and for every other name it fails with
\* SaltInvocationError, "You must specify a valid algorithm.", and in no
\* other way.
C9_HashClaim ==
  (pc = "done" /\ op = "hash" /\ args.value.type \in {"str", "bytes"})
    => IF args.algorithm \in hashlib_supported
       THEN IsOk(ret)
       ELSE ret = Raise("SaltInvocationError", "You must specify a valid algorithm.")

\* C10: str_encode returns the encoded string for every string value and every
\* encoder that is base64 or another known codec, and for an unknown encoder
\* it fails with "You must specify a valid encoder".
C10_StrEncodeClaim ==
  (pc = "done" /\ op = "str_encode" /\ args.value.type = "str")
    => IF args.encoder = "base64" \/ args.encoder \in codecs_known
       THEN IsOk(ret)
       ELSE ret = Raise("SaltInvocationError", "You must specify a valid encoder")
=============================================================================
